---- MODULE Spec2Model ----
(***************************************************************************)
(* Model of mcp_bcrp's deterministic series resolution:                    *)
(* SearchEngine (_normalize, _extract_attributes, _preprocess_metadata,    *)
(* solve) of src/mcp_bcrp/search_engine.py and BCRPMetadata.solve of       *)
(* src/mcp_bcrp/client.py.                                                 *)
(*                                                                         *)
(* Text is a sequence of characters.  A character is a one-letter string,  *)
(* or a named string for the non-ASCII code points the model uses:         *)
(*   "e_acute"  U+00E9  LATIN SMALL LETTER E WITH ACUTE                    *)
(*   "E_acute"  U+00C9  LATIN CAPITAL LETTER E WITH ACUTE                  *)
(*   "acute"    U+0301  COMBINING ACUTE ACCENT                             *)
(*   "E_script" U+2130  SCRIPT CAPITAL E (no lowercase mapping; its        *)
(*                      compatibility decomposition is "E")                *)
(* A Python value is a record [type, s]: type is "str" with s its text, or *)
(* "NoneType" with s empty.                                                *)
(***************************************************************************)
EXTENDS Integers, Sequences, FiniteSets, TLC

VARIABLES
    df,                 \* the metadata table (BCRPMetadata.df / SearchEngine.df)
    search_corpus,      \* SearchEngine.search_corpus
    fuzz,               \* module global: TRUE iff rapidfuzz was imported
    op,                 \* the last operation called
    arg,                \* its argument (a Python value)
    ret,                \* its return value
    q_norm,             \* solve's locals when it returned
    q_attrs,
    candidates,
    score_log,          \* every iteration of solve's scoring loop
    scored_candidates,
    _loaded,            \* BCRPMetadata._loaded
    cache_file,         \* the content of the file at BCRPMetadata._cache_path
    semaphore,          \* AsyncBCRPClient.semaphore
    pc,                 \* where each task of the event loop stands
    call                \* the call each task runs, with its locals

\* the state the tasks of the event loop share and their own
server_vars == <<_loaded, cache_file, semaphore, pc, call>>

vars == <<df, search_corpus, fuzz, op, arg, ret, q_norm, q_attrs, candidates,
          score_log, scored_candidates, _loaded, cache_file, semaphore, pc,
          call>>

\* ------------------------------------------------------------- characters

LowerAlpha == <<"a","b","c","d","e","f","g","h","i","j","k","l","m",
                "n","o","p","q","r","s","t","u","v","w","x","y","z">>

UpperAlpha == <<"A","B","C","D","E","F","G","H","I","J","K","L","M",
                "N","O","P","Q","R","S","T","U","V","W","X","Y","Z">>

\* The ASCII characters of the model in code point order.
AsciiOrder == <<" ", ",", "(", ")">> \o UpperAlpha \o <<"_">> \o LowerAlpha

Range(f) == {f[i] : i \in DOMAIN f}

IndexOf(seq, c) == CHOOSE i \in DOMAIN seq : seq[i] = c

Ord(c) == IndexOf(AsciiOrder, c)

IsAscii(c) == c \in Range(AsciiOrder)

\* \w of the re module on ASCII text
IsWordChar(c) == c \in Range(LowerAlpha) \cup Range(UpperAlpha) \cup {"_"}

\* \s of the re module, and the separators of str.split()
IsSpace(c) == c = " "

\* str.lower() of one character
LowerChar(c) ==
    IF c \in Range(UpperAlpha) THEN LowerAlpha[IndexOf(UpperAlpha, c)]
    ELSE IF c = "E_acute" THEN "e_acute"
    ELSE c

\* unicodedata.normalize('NFKD', c) of one character
NFKDChar(c) ==
    IF c = "e_acute" THEN <<"e", "acute">>
    ELSE IF c = "E_acute" THEN <<"E", "acute">>
    ELSE IF c = "E_script" THEN <<"E">>
    ELSE <<c>>

Lower(text) == [i \in DOMAIN text |-> LowerChar(text[i])]

RECURSIVE NFKD(_)
NFKD(text) ==
    IF text = <<>> THEN <<>> ELSE NFKDChar(Head(text)) \o NFKD(Tail(text))

\* text.encode('ascii', 'ignore').decode('utf-8')
AsciiIgnore(text) == SelectSeq(text, IsAscii)

\* re.sub(r'[^\w\s]', ' ', text)
StripPunct(text) ==
    [i \in DOMAIN text |->
        IF IsWordChar(text[i]) \/ IsSpace(text[i]) THEN text[i] ELSE " "]

\* str.split(): the maximal runs of non-space characters, in order
RECURSIVE SplitFrom(_, _, _)
SplitFrom(text, i, cur) ==
    IF i > Len(text)
    THEN IF cur = <<>> THEN <<>> ELSE <<cur>>
    ELSE IF IsSpace(text[i])
         THEN (IF cur = <<>> THEN <<>> ELSE <<cur>>) \o SplitFrom(text, i + 1, <<>>)
         ELSE SplitFrom(text, i + 1, Append(cur, text[i]))

Split(text) == SplitFrom(text, 1, <<>>)

\* " ".join(tokens)
RECURSIVE Join(_)
Join(tokens) ==
    IF tokens = <<>> THEN <<>>
    ELSE IF Len(tokens) = 1 THEN tokens[1]
    ELSE tokens[1] \o <<" ">> \o Join(Tail(tokens))

\* ------------------------------------------------------------- _normalize

STOPWORDS ==
    { <<"d","e">>, <<"d","e","l">>, <<"e","l">>, <<"l","a">>, <<"l","o","s">>,
      <<"l","a","s">>, <<"y">>, <<"e","n">>, <<"a","l">>, <<"c","o","n">>,
      <<"p","o","r">> }

Str(s) == [type |-> "str", s |-> s]

None == [type |-> "NoneType", s |-> <<>>]

NotStopword(t) == t \notin STOPWORDS

\* the steps of _normalize before the stopword filter: lines 65-68
FoldedTokens(s) == Split(StripPunct(AsciiIgnore(NFKD(Lower(s)))))

\* mutant: only the leading stopwords dropped
RECURSIVE DropLeadingStopwords(_)
DropLeadingStopwords(tokens) ==
    IF tokens # <<>> /\ Head(tokens) \in STOPWORDS
    THEN DropLeadingStopwords(Tail(tokens))
    ELSE tokens

clean_tokens_leading(s) == DropLeadingStopwords(FoldedTokens(s))

\* line 69
clean_tokens(s) == SelectSeq(FoldedTokens(s), NotStopword)

\* _normalize(text): a Python value in, the text of the returned str out
_normalize(text) ==
    IF text.type # "str" THEN <<>> ELSE Join(clean_tokens(text.s))

\* ---------------------------------------------------- _extract_attributes

Null == "null"

ToSet(seq) == Range(seq)

\* Python's `pat in text` on strings
IsSubstring(pat, text) ==
    \E i \in 0..(Len(text) - Len(pat)) : SubSeq(text, i + 1, i + Len(pat)) = pat

w_us == <<"u","s">>
w_usd == <<"u","s","d">>
w_dolares == <<"d","o","l","a","r","e","s">>
w_s == <<"s">>
w_pen == <<"p","e","n">>
w_soles == <<"s","o","l","e","s">>
w_corto == <<"c","o","r","t","o">>
w_largo == <<"l","a","r","g","o">>
w_activos == <<"a","c","t","i","v","o","s">>
w_pasivos == <<"p","a","s","i","v","o","s">>
w_millones == <<"m","i","l","l","o","n","e","s">>
w_miles == <<"m","i","l","e","s">>

USD_TOKENS == {w_us, w_usd, w_dolares}

PEN_TOKENS == {w_s, w_pen, w_soles}

\* mutant: the pen tokens tried first
currency_of_pen_first(tokens) ==
    IF \E t \in PEN_TOKENS : t \in tokens THEN "pen"
    ELSE IF \E t \in USD_TOKENS : t \in tokens THEN "usd"
    ELSE Null

\* lines 92-96
currency_of(tokens) ==
    IF \E t \in USD_TOKENS : t \in tokens THEN "usd"
    ELSE IF \E t \in PEN_TOKENS : t \in tokens THEN "pen"
    ELSE Null

horizon_of(text_norm) ==
    IF IsSubstring(w_corto, text_norm) THEN "corto"
    ELSE IF IsSubstring(w_largo, text_norm) THEN "largo"
    ELSE Null

component_of(text_norm) ==
    IF IsSubstring(w_activos, text_norm) THEN "activos"
    ELSE IF IsSubstring(w_pasivos, text_norm) THEN "pasivos"
    ELSE Null

scale_of(text_norm) ==
    IF IsSubstring(w_millones, text_norm) THEN "millones"
    ELSE IF IsSubstring(w_miles, text_norm) THEN "miles"
    ELSE Null

_extract_attributes(text_norm) ==
    [currency  |-> currency_of(ToSet(Split(text_norm))),
     horizon   |-> horizon_of(text_norm),
     component |-> component_of(text_norm),
     scale     |-> scale_of(text_norm)]

\* ---------------------------------------------------- _preprocess_metadata

\* The metadata table: the spelling of its series-code column header and its
\* rows.  Header spellings:
\*   "Codigo_mojibake"   the UTF-8 bytes of the accented header read as Latin-1
\*   "Codigo_unaccented" 'Codigo de serie'
\*   "Codigo_accented"   the accented header itself
\* row.get(k1) or row.get(k2): the code under either looked-up spelling
codigo_serie_of(header, row) ==
    IF header \in {"Codigo_mojibake", "Codigo_unaccented"} THEN row.code
    ELSE "None"

item_of(header, rows, idx) ==
    LET raw_name == rows[idx].name
        name_norm == _normalize(Str(raw_name))
        attrs == _extract_attributes(name_norm)
    IN  [idx           |-> idx,
         codigo_serie  |-> codigo_serie_of(header, rows[idx]),
         name_original |-> raw_name,
         name_norm     |-> name_norm,
         tokens        |-> ToSet(Split(name_norm)),
         currency      |-> attrs.currency,
         horizon       |-> attrs.horizon,
         component     |-> attrs.component,
         scale         |-> attrs.scale]

_preprocess_metadata(table) ==
    IF table.rows = <<>> THEN <<>>
    ELSE [idx \in 1..Len(table.rows) |-> item_of(table.header, table.rows, idx)]

\* ------------------------------------------------------------- scoring

Max(a, b) == IF a >= b THEN a ELSE b

\* One row of the longest-common-subsequence table: row[k] is the value at
\* column k - 1; prev is the row above, c the character of this row.  (The
\* Len tests only make the evaluation of each row strict.)
RECURSIVE LCSRow(_, _, _, _, _)
LCSRow(prev, c, b, j, row) ==
    IF j > Len(b) THEN row
    ELSE LET next == Append(row, IF c = b[j] THEN prev[j] + 1
                                 ELSE Max(prev[j + 1], row[j]))
         IN  IF Len(next) = j + 1 THEN LCSRow(prev, c, b, j + 1, next) ELSE <<>>

RECURSIVE LCSFrom(_, _, _, _)
LCSFrom(a, b, i, prev) ==
    IF i > Len(a) THEN prev[Len(b) + 1]
    ELSE LET row == LCSRow(prev, a[i], b, 1, <<0>>)
         IN  IF Len(row) = Len(b) + 1 THEN LCSFrom(a, b, i + 1, row) ELSE 0

\* length of the longest common subsequence of a and b
LCS(a, b) == LCSFrom(a, b, 1, [k \in 1..(Len(b) + 1) |-> 0])

\* a < b for strings: code point order, a proper prefix first
RECURSIVE StrLess(_, _)
StrLess(a, b) ==
    IF b = <<>> THEN FALSE
    ELSE IF a = <<>> THEN TRUE
    ELSE IF Head(a) = Head(b) THEN StrLess(Tail(a), Tail(b))
    ELSE Ord(Head(a)) < Ord(Head(b))

\* sorted(tokens)
RECURSIVE InsertToken(_, _)
InsertToken(t, sorted) ==
    IF sorted = <<>> THEN <<t>>
    ELSE IF StrLess(t, Head(sorted)) THEN <<t>> \o sorted
    ELSE <<Head(sorted)>> \o InsertToken(t, Tail(sorted))

RECURSIVE SortTokens(_)
SortTokens(tokens) ==
    IF tokens = <<>> THEN <<>>
    ELSE InsertToken(Head(tokens), SortTokens(Tail(tokens)))

\* A score is the rational num/den (den > 0): the number the library's float
\* approximates.
Rat(n, d) == [num |-> n, den |-> d]

RatGE(x, y) == x.num * y.den >= y.num * x.den

RatGT(x, y) == x.num * y.den > y.num * x.den

RatMinus(x, k) == Rat(x.num - k * x.den, x.den)

\* fuzz.ratio: 100 * 2 * LCS / (len1 + len2), 100 for two empty strings
ratio(s1, s2) ==
    IF Len(s1) + Len(s2) = 0 THEN Rat(100, 1)
    ELSE Rat(200 * LCS(s1, s2), Len(s1) + Len(s2))

\* fuzz.token_sort_ratio: the ratio of the two strings with their tokens sorted
token_sort_ratio(s1, s2) ==
    ratio(Join(SortTokens(Split(s1))), Join(SortTokens(Split(s2))))

\* line 185-187: 0 when the library is missing
base_score(fz, qn, c) ==
    IF fz THEN token_sort_ratio(qn, c.name_norm) ELSE Rat(0, 1)

\* lines 185-191: one iteration of the scoring loop
score_entry(fz, qn, q_tokens, c) ==
    LET score == base_score(fz, qn, c)
        q_extras == Cardinality(q_tokens \ c.tokens)
    IN  [series               |-> c,
         score                |-> RatMinus(score, 5 * q_extras),
         original_score       |-> score,
         missing_query_tokens |-> q_tokens \ c.tokens]

\* mutant: the looser threshold 65
accepted_65(x) == RatGE(x.score, Rat(65, 1))

\* mutant: a score of exactly 80 rejected
accepted_strict(x) == RatGT(x.score, Rat(80, 1))

\* line 193
accepted(x) == RatGE(x.score, Rat(80, 1))

\* list.sort(key = score, reverse = True): stable, descending
RECURSIVE InsertByScore(_, _)
InsertByScore(x, sorted) ==
    IF sorted = <<>> THEN <<x>>
    ELSE IF RatGT(x.score, Head(sorted).score) THEN <<x>> \o sorted
    ELSE <<Head(sorted)>> \o InsertByScore(x, Tail(sorted))

RECURSIVE SortByScore(_, _)
SortByScore(xs, acc) ==
    IF xs = <<>> THEN acc
    ELSE SortByScore(Tail(xs), InsertByScore(Head(xs), acc))

\* mutant: the score truncated to hundredths
confidence_truncated(score) == score.num \div score.den

\* round(score / 100.0, 2) in hundredths.  A score exactly between two
\* hundredths goes where the float quotient falls: 0.825 -> 0.82,
\* 0.875 -> 0.88, 0.925 -> 0.93, 0.975 -> 0.97; other ties to even.
confidence_of(score) ==
    LET q == score.num \div score.den
        r == score.num % score.den
    IN  IF 2 * r < score.den THEN q
        ELSE IF 2 * r > score.den THEN q + 1
        ELSE IF q \in {87, 92} THEN q + 1
        ELSE IF q \in {82, 97} THEN q
        ELSE IF q % 2 = 0 THEN q ELSE q + 1

\* ------------------------------------------------------------- solve

NoAttrs == [currency |-> Null, horizon |-> Null, component |-> Null, scale |-> Null]

\* mutant: a record whose facet is null passes the filter
filter_by_null_passes(cands, facet, value) ==
    IF value # Null
    THEN SelectSeq(cands, LAMBDA c : c[facet] = value \/ c[facet] = Null)
    ELSE cands

\* lines 170-177: one hard filter; a null (falsy) query facet filters nothing
filter_by(cands, facet, value) ==
    IF value # Null THEN SelectSeq(cands, LAMBDA c : c[facet] = value)
    ELSE cands

hard_filters(corpus, attrs) ==
    filter_by(filter_by(filter_by(corpus, "currency", attrs.currency),
                        "horizon", attrs.horizon),
              "component", attrs.component)

\* lines 183-191: the locals of every iteration of the scoring loop
score_all(fz, qn, q_tokens, cands) ==
    [i \in 1..Len(cands) |-> score_entry(fz, qn, q_tokens, cands[i])]

\* mutant: a margin of 2 points
top_tier_2(scored) ==
    SelectSeq(scored, LAMBDA x : RatGE(x.score, RatMinus(scored[1].score, 2)))

\* lines 217-220
top_tier(scored) ==
    SelectSeq(scored, LAMBDA x : RatGE(x.score, RatMinus(scored[1].score, 5)))

Prefix(seq, n) == SubSeq(seq, 1, IF Len(seq) < n THEN Len(seq) ELSE n)

\* mutant: the result the docstring of solve describes, without the name
resolved_without_name(top) ==
    [codigo_serie |-> top.series.codigo_serie,
     confidence   |-> confidence_of(top.score)]

resolved(top) ==
    [codigo_serie |-> top.series.codigo_serie,
     confidence   |-> confidence_of(top.score),
     name         |-> top.series.name_original]

not_found(reason) == [error |-> "no_match", reason |-> reason]

\* lines 206-237: the result once some candidate is accepted
decide(scored) ==
    LET top == scored[1]
        tier == top_tier(scored)
        currencies == {tier[i].series.currency : i \in DOMAIN tier}
        components == {tier[i].series.component : i \in DOMAIN tier}
    IN  IF Len(scored) = 1 THEN resolved(top)
        ELSE IF Cardinality(currencies) > 1 \/ Cardinality(components) > 1
        THEN [error      |-> "ambiguedad",
              candidates |-> [i \in 1..Len(Prefix(tier, 5)) |->
                                 tier[i].series.codigo_serie],
              reason     |-> "mixed_attributes_in_top_results"]
        ELSE resolved(top)

\* The frame of solve when it returns: its result and its locals (a local not
\* yet assigned is empty).  score_log holds every iteration of the scoring
\* loop, scored_candidates the accepted ones after the sort.
Frame(r, qn, attrs, cands, log, scored) ==
    [ret |-> r, q_norm |-> qn, q_attrs |-> attrs, candidates |-> cands,
     score_log |-> log, scored_candidates |-> scored]

\* line 162
q_tokens_of(qn) == ToSet(Split(qn))

\* lines 182-237: scoring, acceptance and the decision
solve_candidates(fz, qn, attrs, cands) ==
    LET log == score_all(fz, qn, q_tokens_of(qn), cands)
        scored == SortByScore(SelectSeq(log, accepted), <<>>)
    IN  IF scored = <<>>
        THEN Frame(not_found("low_score"), qn, attrs, cands, log, scored)
        ELSE Frame(decide(scored), qn, attrs, cands, log, scored)

\* lines 159-180: the query is parsed, then the hard filters
solve_query(corpus, fz, query) ==
    LET qn == _normalize(query)
        attrs == _extract_attributes(qn)
        cands == hard_filters(corpus, attrs)
    IN  IF q_tokens_of(qn) = {}
        THEN Frame(not_found("empty_query"), qn, attrs, <<>>, <<>>, <<>>)
        ELSE IF cands = <<>>
        THEN Frame(not_found("filters_eliminated_all"), qn, attrs, cands,
                   <<>>, <<>>)
        ELSE solve_candidates(fz, qn, attrs, cands)

\* mutant: the query examined before the corpus
solve_query_first(corpus, fz, query) ==
    IF q_tokens_of(_normalize(query)) = {}
    THEN Frame(not_found("empty_query"), _normalize(query),
               _extract_attributes(_normalize(query)), <<>>, <<>>, <<>>)
    ELSE IF corpus = <<>>
    THEN Frame(not_found("empty_corpus"), <<>>, NoAttrs, <<>>, <<>>, <<>>)
    ELSE solve_query(corpus, fz, query)

\* lines 156-157, then the rest of solve
solve(corpus, fz, query) ==
    IF corpus = <<>>
    THEN Frame(not_found("empty_corpus"), <<>>, NoAttrs, <<>>, <<>>, <<>>)
    ELSE solve_query(corpus, fz, query)

\* mutant: the accepted list is the candidates list sorted in place; with no
\* facet in the query that list is the corpus itself
corpus_sorted_in_place(corpus, fz, query) ==
    LET f == solve(corpus, fz, query)
    IN  IF f.score_log # <<>> /\ f.candidates = corpus
        THEN LET sorted == SortByScore(f.score_log, <<>>)
             IN  [i \in 1..Len(sorted) |-> sorted[i].series]
        ELSE corpus

\* self.search_corpus when solve returns.  Line 167 makes candidates another
\* name of the corpus list; the filters (171-177) bind it to new lists, the
\* loop (184-199) reads it, and line 201 sorts scored_candidates, a list of
\* its own: no statement of solve writes to the corpus or to a record.
corpus_after_solve(corpus, fz, query) == corpus

\* BCRPMetadata.solve: an engine built from the table, then its solve
metadata_solve(table, fz, query) ==
    IF table.rows = <<>>
    THEN Frame(not_found("metadata_not_loaded"), <<>>, NoAttrs, <<>>, <<>>, <<>>)
    ELSE solve(_preprocess_metadata(table), fz, query)

\* ------------------------------------------- _format_date_for_api

Digits == <<"0","1","2","3","4","5","6","7","8","9">>

\* str.split('-'): the parts between the separators, empty ones included
RECURSIVE SplitOn(_, _, _, _)
SplitOn(text, sep, i, cur) ==
    IF i > Len(text) THEN <<cur>>
    ELSE IF text[i] = sep THEN <<cur>> \o SplitOn(text, sep, i + 1, <<>>)
    ELSE SplitOn(text, sep, i + 1, Append(cur, text[i]))

\* int(s) is defined for a non-empty run of digits (signs, spaces and
\* underscores are not in the model); otherwise it raises ValueError
IsInt(s) == s # <<>> /\ \A i \in DOMAIN s : s[i] \in Range(Digits)

RECURSIVE IntFrom(_, _, _)
IntFrom(s, i, acc) ==
    IF i > Len(s) THEN acc
    ELSE IntFrom(s, i + 1, 10 * acc + (IndexOf(Digits, s[i]) - 1))

int(s) == IntFrom(s, 1, 0)

\* f"{n}" of a natural number
RECURSIVE str_of_int(_)
str_of_int(n) ==
    IF n < 10 THEN <<Digits[n + 1]>>
    ELSE str_of_int(n \div 10) \o <<Digits[(n % 10) + 1]>>

ValueError == [type |-> "ValueError", s |-> <<>>]

\* f"{parts[0]}-{int(parts[1])}..." : the first part as it is, the others
\* through int; ValueError when one of them is not an integer
RECURSIVE DashInts(_)
DashInts(parts) ==
    IF parts = <<>> THEN <<>>
    ELSE <<"-">> \o str_of_int(int(Head(parts))) \o DashInts(Tail(parts))

formatted(first, others, suffix) ==
    IF \A i \in DOMAIN others : IsInt(others[i])
    THEN Str(first \o DashInts(others) \o suffix)
    ELSE ValueError

\* mutant: the non-daily branch taken for exactly two parts
_format_date_two_parts(date_str, frequency) ==
    IF date_str.type # "str" \/ date_str.s = <<>> THEN date_str
    ELSE LET parts == SplitOn(date_str.s, "-", 1, <<>>)
         IN  IF frequency = "daily"
             THEN IF Len(parts) = 2
                  THEN formatted(parts[1], <<parts[2]>>, <<"-", "1">>)
                  ELSE IF Len(parts) = 3
                  THEN formatted(parts[1], <<parts[2], parts[3]>>, <<>>)
                  ELSE date_str
             ELSE IF Len(parts) = 2
                  THEN formatted(parts[1], <<parts[2]>>, <<>>)
                  ELSE date_str

\* lines 207-229
_format_date_for_api(date_str, frequency) ==
    IF date_str.type # "str" \/ date_str.s = <<>> THEN date_str
    ELSE LET parts == SplitOn(date_str.s, "-", 1, <<>>)
         IN  IF frequency = "daily"
             THEN IF Len(parts) = 2
                  THEN formatted(parts[1], <<parts[2]>>, <<"-", "1">>)
                  ELSE IF Len(parts) = 3
                  THEN formatted(parts[1], <<parts[2], parts[3]>>, <<>>)
                  ELSE date_str
             ELSE IF Len(parts) >= 2
                  THEN formatted(parts[1], <<parts[2]>>, <<>>)
                  ELSE date_str

\* ------------------------------------------- BCRPMetadata.load, search

\* the file at _cache_path: absent, unreadable as a table, or a table
NoCacheFile == [state |-> "absent", table |-> [header |-> "Codigo_unaccented", rows |-> <<>>]]

CorruptCacheFile == [state |-> "corrupt", table |-> NoCacheFile.table]

CacheFileOf(table) == [state |-> "table", table |-> table]

\* load() up to its return or to the await of refresh (lines 58-70): what it
\* did ("early": line 59, "cache": lines 64-66, "download": line 70) and the
\* table and flag it leaves
load_start(table, loaded, file) ==
    IF loaded /\ table.rows # <<>>
    THEN [did |-> "early", df |-> table, _loaded |-> loaded]
    ELSE IF file.state = "table"
    THEN [did |-> "cache", df |-> file.table, _loaded |-> TRUE]
    ELSE [did |-> "download", df |-> table, _loaded |-> loaded]

\* the characters of a series code
code_text(code) ==
    CASE code = "C2" -> <<"C", "2">>
      [] code = "D1" -> <<"D", "1">>
      [] code = "D2" -> <<"D", "2">>
      [] code = "A1" -> <<"A", "1">>
      [] OTHER -> <<>>

\* line 95: limit = 20
search_limit == 20

\* line 117
score_cutoff == Rat(40, 1)

\* _simple_search (lines 141-155): the rows where every keyword of the query
\* is found, whatever the case, in the name or in the series code (when the
\* code column carries the header the function looks for)
_simple_search(table, query, limit) ==
    LET keywords == Split(Lower(query))
        found(kw, row) ==
            \/ IsSubstring(Lower(kw), Lower(row.name))
            \/ /\ table.header = "Codigo_mojibake"
               /\ IsSubstring(Lower(kw), Lower(code_text(row.code)))
        mask(row) == \A i \in DOMAIN keywords : found(keywords[i], row)
    IN  Prefix(SelectSeq(table.rows, mask), limit)

\* process.extract(query, names, scorer = fuzz.token_sort_ratio, limit,
\* score_cutoff): the names as they are (no preprocessing), the best first
extract(table, query, limit) ==
    LET scored == [i \in DOMAIN table.rows |->
                      [row   |-> table.rows[i],
                       score |-> token_sort_ratio(query, table.rows[i].name)]]
        kept == SelectSeq(scored, LAMBDA x : RatGE(x.score, score_cutoff))
    IN  Prefix(SortByScore(kept, <<>>), limit)

\* BCRPMetadata.search (lines 95-122): the rows of the listing
search(table, fz, query, limit) ==
    IF table.rows = <<>> THEN <<>>
    ELSE IF ~fz THEN _simple_search(table, query, limit)
    ELSE LET results == extract(table, query, limit)
         IN  [i \in DOMAIN results |-> results[i].row]

\* ------------------------------------------------------------- server tools

\* a tool returns a string: json.dumps / to_json of a value, or a plain text
JSON(of, value) == [kind |-> "json", of |-> of, value |-> value]

Text(msg) == [kind |-> "text", of |-> "text", value |-> msg]

NotCalled == [error |-> "not_called"]

\* a tool call just started, with the locals it has not yet assigned
NewCall(tool, query, names) ==
    [tool |-> tool, query |-> query, names |-> names, data |-> "none",
     load |-> "none", loaded_before |-> FALSE, result |-> NotCalled, searched |-> FALSE,
     listing |-> <<>>, raised |-> "none", out |-> Text("")]

\* mutant: the listing is returned whatever solve answered
search_series_always_lists(c, table, fz) ==
    LET result == metadata_solve(table, fz, Str(c.query)).ret
        listing == search(table, fz, c.query, search_limit)
    IN  [c EXCEPT !.result = result, !.searched = TRUE, !.listing = listing,
                  !.out = IF listing = <<>>
                          THEN Text("No series found matching that query.")
                          ELSE JSON("listing", listing)]

\* _search_series after load (server.py lines 34-52)
search_series_after_load(c, table, fz) ==
    LET result == metadata_solve(table, fz, Str(c.query)).ret
        listing == search(table, fz, c.query, search_limit)
    IN  IF "error" \notin DOMAIN result
        THEN [c EXCEPT !.result = result, !.out = JSON("result", result)]
        ELSE IF result.error = "ambiguedad"
        THEN [c EXCEPT !.result = result, !.out = JSON("result", result)]
        ELSE [c EXCEPT !.result = result, !.searched = TRUE,
                       !.listing = listing,
                       !.out = IF listing = <<>>
                               THEN Text("No series found matching that query.")
                               ELSE JSON("listing", listing)]

\* server.py lines 53-55
search_series_failed(c, exception) ==
    [c EXCEPT !.raised = exception, !.out = Text("Search failed")]

\* the attributes of a BCRPMetadata object (client.py lines 13-155)
BCRPMetadataAttrs ==
    {"METADATA_URL", "CACHE_FILENAME", "df", "_loaded", "_cache_path",
     "__init__", "_get_cache_path", "load", "refresh", "search", "solve",
     "_simple_search"}

\* df.rename(columns = dict(zip(series_codes, names))) on the columns
renamed(columns, series_codes, names) ==
    [i \in DOMAIN columns |->
        IF \E k \in DOMAIN series_codes :
               k <= Len(names) /\ series_codes[k] = columns[i]
        THEN names[CHOOSE k \in DOMAIN series_codes :
                       k <= Len(names) /\ series_codes[k] = columns[i]]
        ELSE columns[i]]

\* get_table from its step 3, with the names it was given (lines 161-165)
get_table_with_names(c, series_codes) ==
    [c EXCEPT !.out = JSON("table", renamed(<<"time">> \o series_codes,
                                            series_codes, c.names.list))]

\* get_table after the load of step 2 (lines 159-169): the method looked up
\* on the metadata object; a missing attribute raises AttributeError, which
\* line 168 turns into the failure text
get_table_after_load(c, series_codes) ==
    IF "get_series_names" \in BCRPMetadataAttrs
    THEN get_table_with_names([c EXCEPT !.names.list = series_codes],
                              series_codes)
    ELSE [c EXCEPT !.raised = "AttributeError",
                   !.out = Text("Table generation failed")]

\* lines 168-169
get_table_failed(c, exception) ==
    [c EXCEPT !.raised = exception, !.out = Text("Table generation failed")]

\* ------------------------------------------------------------- inputs

\* series names of the metadata tables
n_tc_compra == <<"T","i","p","o"," ","d","e"," ","C","a","m","b","i","o"," ","C","o","m","p","r","a"," ","U","S","D">>

n_tc_venta == <<"T","i","p","o"," ","d","e"," ","C","a","m","b","i","o"," ","V","e","n","t","a"," ","U","S","D">>

n_credito_s == <<"C","r","e","d","i","t","o"," ","S">>

n_credito_us == <<"C","r","e","d","i","t","o"," ","U","S">>

n_credito_corto_us == <<"C","r","e","d","i","t","o"," ","C","o","r","t","o"," ","U","S">>

n_credito_soles == <<"C","r","e","d","i","t","o"," ","S","o","l","e","s">>

n_deposito == <<"D","e","p","o","s","i","t","o">>

n_depositos_us == <<"D","e","p","o","s","i","t","o","s"," ","U","S">>

n_activos_ext == <<"A","c","t","i","v","o","s"," ","E","x","t","e","r","n","o","s"," ","T","o","t","a","l","e","s">>

n_pasivos_ext == <<"P","a","s","i","v","o","s"," ","E","x","t","e","r","n","o","s"," ","T","o","t","a","l","e","s">>

n_precio_cobre == <<"P","r","e","c","i","o"," ","d","e","l"," ","C","o","b","r","e"," ","(","U","S","D",")">>

n_activos_me_us == <<"A","c","t","i","v","o","s"," ","M","E"," ","U","S">>

n_activos_mn_us == <<"A","c","t","i","v","o","s"," ","M","N"," ","U","S">>

n_activos_usa == <<"A","c","t","i","v","o","s"," ","U","S","A">>

n_activos == <<"A","c","t","i","v","o","s">>

\* query phrases
p_tipo_cambio == <<"t","i","p","o"," ","c","a","m","b","i","o">>

p_credito == <<"c","r","e","d","i","t","o">>

p_depositos == <<"d","e","p","o","s","i","t","o","s">>

p_externos_totales == <<"e","x","t","e","r","n","o","s"," ","t","o","t","a","l","e","s">>

p_precio_cobre == <<"p","r","e","c","i","o"," ","c","o","b","r","e">>

w_pesos == <<"p","e","s","o","s">>

Row(code, name) == [code |-> code, name |-> name]

Table(header, rows) == [header |-> header, rows |-> rows]

\* pd.DataFrame(): BCRPMetadata.__init__
EmptyTable == Table("Codigo_unaccented", <<>>)

\* the two exchange-rate series
ExchangeTable ==
    Table("Codigo_unaccented",
          << Row("PD1", n_tc_compra), Row("PD2", n_tc_venta) >>)

\* a catalog as downloaded: latin-1 decoded header, series of several facets
CatalogTable ==
    Table("Codigo_mojibake",
          << Row("C1", n_credito_s), Row("C2", n_credito_us),
             Row("C3", n_credito_us), Row("C4", n_credito_corto_us),
             Row("C5", n_credito_soles), Row("D1", n_deposito),
             Row("D2", n_depositos_us), Row("A1", n_activos_ext),
             Row("P1", n_pasivos_ext) >>)

\* the table of tests/test_basic.py
TestTable == Table("Codigo_accented", << Row("TEST001", n_precio_cobre) >>)

\* assets in dollars, in foreign (ME) and national (MN) currency accounts, and
\* assets held in the USA (no currency)
AssetsTable ==
    Table("Codigo_unaccented",
          << Row("R1", n_activos_me_us), Row("R2", n_activos_mn_us),
             Row("R3", n_activos_usa) >>)

Tables == {EmptyTable, ExchangeTable, CatalogTable, TestTable, AssetsTable}

MaxLen == 3

MaxRawQueryLen == 1

MaxQueryWords == 2

MaxAttrWords == 2

\* all sequences over S of length at most n
SeqsUpTo(S, n) == UNION {[1..k -> S] : k \in 0..n}

RawAlphabet == {"y", "e", "l", "E", "e_acute", "E_script", " ", ","}

\* arbitrary short texts, for _normalize
RawTexts == SeqsUpTo(RawAlphabet, MaxLen)

QueryWords ==
    {p_tipo_cambio, p_credito, p_depositos, p_externos_totales,
     p_precio_cobre, w_us, w_s, w_corto, w_activos}

AttrWords ==
    {w_us, w_usd, w_dolares, w_s, w_pen, w_soles, w_corto, w_largo,
     w_activos, w_pasivos, w_millones, w_miles, w_pesos}

\* the queries given to solve: phrases joined by spaces, short raw texts
\* (the empty and the whitespace-only ones among them), and None
Queries ==
    {Str(Join(ws)) : ws \in SeqsUpTo(QueryWords, MaxQueryWords)}
        \cup {Str(t) : t \in SeqsUpTo(RawAlphabet, MaxRawQueryLen)}
        \cup {None}

\* the values given to _normalize
NormalizeArgs == {Str(t) : t \in RawTexts} \cup {None}

\* the normalized texts given to _extract_attributes
AttrTexts == {Join(ws) : ws \in SeqsUpTo(AttrWords, MaxAttrWords)}

MaxDateParts == 3

\* the catalog the statistics site delivers: latin-1 decoded header
ServerCatalog ==
    Table("Codigo_mojibake",
          << Row("C2", n_credito_us), Row("D1", n_deposito),
             Row("D2", n_depositos_us), Row("A1", n_activos) >>)

\* the queries given to the search_series tool
ServerQueries ==
    {Join(<<p_credito, w_us>>), p_depositos, Join(<<w_activos, w_us>>),
     p_tipo_cambio}

\* the series codes given to get_table
TableCodes == <<"C2", "D2">>

\* the names given to get_table: omitted (None), or a list
NamesArgs ==
    {[given |-> FALSE, list |-> <<>>],
     [given |-> TRUE, list |-> <<"credito", "depositos">>]}

MaxCallers == 2

\* the tasks that run tools of the server
Callers == 1..MaxCallers

MaxTasks == 3

\* the tasks of the event loop
Tasks == 1..MaxTasks

\* the parts dates are made of: a year, months and days with and without a
\* leading zero, a part that is no integer, the empty part
DateParts ==
    { <<"2","0","2","4">>, <<"0","1">>, <<"0","9">>, <<"1","0">>, <<"1","2">>,
      <<"7">>, <<"x">>, <<>> }

RECURSIVE JoinDash(_)
JoinDash(parts) ==
    IF Len(parts) = 1 THEN parts[1]
    ELSE parts[1] \o <<"-">> \o JoinDash(Tail(parts))

\* the dates given to _format_date_for_api: None, the empty string, and parts
\* joined by '-'
Dates ==
    {None} \cup
    {Str(JoinDash(ps)) : ps \in UNION {[1..k -> DateParts] : k \in 1..MaxDateParts}}

\* the results of _detect_frequency (lines 184-205)
Frequencies == {"daily", "monthly", "quarterly", "annual"}

\* ------------------------------------------------------------- actions

NoFrame == Frame("None", <<>>, NoAttrs, <<>>, <<>>, <<>>)

\* mutant: a semaphore of two slots
SemaphoreSlots_2 == 1 + 1

\* line 171: asyncio.Semaphore(1)
SemaphoreSlots == 1

\* asyncio.Semaphore(n): the counter and the queue of waiting tasks
Semaphore(n) == [value |-> n, waiters |-> <<>>]

NoCall == [tool |-> "none"]

\* BCRPMetadata() and AsyncBCRPClient() just constructed (server.py 21-22),
\* the cache file as it was left, every task idle
ServerStarted(file) ==
    /\ _loaded = FALSE
    /\ cache_file = file
    /\ semaphore = Semaphore(SemaphoreSlots)
    /\ pc = [t \in Tasks |-> "idle"]
    /\ call = [t \in Tasks |-> NoCall]

ServerIdle == ServerStarted(NoCacheFile)

Returned(name, a, f) ==
    /\ op' = name
    /\ arg' = a
    /\ ret' = f.ret
    /\ q_norm' = f.q_norm
    /\ q_attrs' = f.q_attrs
    /\ candidates' = f.candidates
    /\ score_log' = f.score_log
    /\ scored_candidates' = f.scored_candidates
    /\ UNCHANGED server_vars

\* an engine built from the table, nothing called yet
EngineBuilt(table) ==
    /\ df = table
    /\ search_corpus = _preprocess_metadata(table)
    /\ fuzz \in BOOLEAN
    /\ op = "idle"
    /\ arg = None
    /\ ret = "None"
    /\ q_norm = <<>>
    /\ q_attrs = NoAttrs
    /\ candidates = <<>>
    /\ score_log = <<>>
    /\ scored_candidates = <<>>

Built(table) == EngineBuilt(table) /\ ServerIdle

Init == \E table \in Tables : Built(table)

\* SearchEngine(metadata_df)
NewEngine(table) ==
    /\ op = "idle"
    /\ df' = table
    /\ search_corpus' = _preprocess_metadata(table)
    /\ UNCHANGED <<fuzz, op, arg, ret, q_norm, q_attrs, candidates, score_log,
                   scored_candidates>>
    /\ UNCHANGED server_vars

\* engine.solve(query)
Solve(query) ==
    /\ op = "idle"
    /\ Returned("solve", query, solve(search_corpus, fuzz, query))
    /\ search_corpus' = corpus_after_solve(search_corpus, fuzz, query)
    /\ UNCHANGED <<df, fuzz>>

\* metadata.solve(query)
MetadataSolve(query) ==
    /\ op = "idle"
    /\ Returned("metadata_solve", query, metadata_solve(df, fuzz, query))
    /\ UNCHANGED <<df, search_corpus, fuzz>>

\* engine._normalize(text)
Normalize(text) ==
    /\ op = "idle"
    /\ Returned("_normalize", text, [NoFrame EXCEPT !.ret = _normalize(text)])
    /\ UNCHANGED <<df, search_corpus, fuzz>>

\* engine._extract_attributes(text_norm)
ExtractAttributes(text_norm) ==
    /\ op = "idle"
    /\ Returned("_extract_attributes", Str(text_norm),
                [NoFrame EXCEPT !.ret = _extract_attributes(text_norm)])
    /\ UNCHANGED <<df, search_corpus, fuzz>>

\* the caller takes the result; the frame of the call is gone
Discard ==
    /\ op # "idle"
    /\ Returned("idle", None, NoFrame)
    /\ UNCHANGED <<df, search_corpus, fuzz>>

\* the resolution of queries on an engine
Next ==
    \/ \E table \in Tables : NewEngine(table)
    \/ \E query \in Queries : Solve(query)
    \/ \E query \in Queries : MetadataSolve(query)
    \/ Discard

Spec == Init /\ [][Next]_vars

\* the text functions called on the engine of tests/test_basic.py
InitText == Built(TestTable)

NextText ==
    \/ \E text \in NormalizeArgs : Normalize(text)
    \/ \E text_norm \in AttrTexts : ExtractAttributes(text_norm)
    \/ Discard

SpecText == InitText /\ [][NextText]_vars

\* client._format_date_for_api(date_str, frequency)
FormatDate(date_str, frequency) ==
    /\ op = "idle"
    /\ Returned("_format_date_for_api",
                [type |-> date_str.type, s |-> date_str.s,
                 frequency |-> frequency],
                [NoFrame EXCEPT !.ret = _format_date_for_api(date_str, frequency)])
    /\ UNCHANGED <<df, search_corpus, fuzz>>

\* the date formatting of the client
NextDate ==
    \/ \E date_str \in Dates, frequency \in Frequencies :
           FormatDate(date_str, frequency)
    \/ Discard

SpecDate == InitText /\ [][NextDate]_vars

\* ---------------------------------------------------- AsyncBCRPClient._fetch

engine_vars == <<df, search_corpus, fuzz, op, arg, ret, q_norm, q_attrs,
                 candidates, score_log, scored_candidates>>

\* the tasks inside 'async with self.semaphore' (lines 176-182)
InFetch == {t \in Tasks : pc[t] \in {"sleep", "get"}}

\* Semaphore.locked(): no slot left, or tasks already queued
locked(sem) == sem.value = 0 \/ sem.waiters # <<>>

\* Semaphore.acquire() up to its first suspension: the slot is taken at once
\* when the semaphore is not locked, else the task queues behind the others
acquire(sem, t) ==
    IF locked(sem) THEN [sem EXCEPT !.waiters = Append(@, t)]
    ELSE [sem EXCEPT !.value = @ - 1]

\* Semaphore.release(): the slot is handed to the first queued task, which
\* stays in the queue until it runs; with no task queued the counter grows
release(sem) ==
    IF \E i \in DOMAIN sem.waiters : pc[sem.waiters[i]] = "waiting"
    THEN sem
    ELSE [sem EXCEPT !.value = @ + 1]

\* the task release() wakes: the first queued task not yet woken
woken_by_release(sem) ==
    {sem.waiters[i] : i \in {j \in DOMAIN sem.waiters :
        /\ pc[sem.waiters[j]] = "waiting"
        /\ \A k \in 1..(j - 1) : pc[sem.waiters[k]] # "waiting"}}

\* get_series(codes, ...) up to 'async with self.semaphore' (lines 255-281,
\* 175)
GetSeries(t) ==
    /\ pc[t] = "idle"
    /\ semaphore' = acquire(semaphore, t)
    /\ pc' = [pc EXCEPT ![t] = IF locked(semaphore) THEN "waiting" ELSE "sleep"]
    /\ call' = [call EXCEPT ![t] = [tool |-> "get_series", result |-> "none"]]
    /\ UNCHANGED <<_loaded, cache_file>>
    /\ UNCHANGED engine_vars

\* the woken task runs again: acquire() returns, the section is entered
Resume(t) ==
    /\ pc[t] = "woken"
    /\ semaphore' = [semaphore EXCEPT
                        !.waiters = SelectSeq(@, LAMBDA w : w # t)]
    /\ pc' = [pc EXCEPT ![t] = "sleep"]
    /\ UNCHANGED <<_loaded, cache_file, call>>
    /\ UNCHANGED engine_vars

\* line 179: asyncio.sleep(0.5) is over, line 180 sends the request
Slept(t) ==
    /\ pc[t] = "sleep"
    /\ pc' = [pc EXCEPT ![t] = "get"]
    /\ UNCHANGED <<_loaded, cache_file, semaphore, call>>
    /\ UNCHANGED engine_vars

\* what get_series makes of the end of the request (lines 180-182, 280-311):
\* the data of a response, an empty frame for status 404, the exception of
\* any other error status or of a transport error (the timeout among them)
FetchEnds == {"response", "status_404", "status_error", "transport_error"}

get_series_result(end) ==
    IF end = "response" THEN "data"
    ELSE IF end = "status_404" THEN "empty"
    ELSE "raised"

\* the request ends; leaving 'async with' releases the semaphore
Responded(t, end) ==
    /\ pc[t] = "get"
    /\ semaphore' = release(semaphore)
    /\ pc' = [u \in Tasks |->
                 IF u = t THEN "done"
                 ELSE IF u \in woken_by_release(semaphore) THEN "woken"
                 ELSE pc[u]]
    /\ call' = [call EXCEPT ![t].result = get_series_result(end)]
    /\ UNCHANGED <<_loaded, cache_file>>
    /\ UNCHANGED engine_vars

\* the caller takes the result of get_series
Finish(t) ==
    /\ pc[t] = "done"
    /\ pc' = [pc EXCEPT ![t] = "idle"]
    /\ call' = [call EXCEPT ![t] = NoCall]
    /\ UNCHANGED <<_loaded, cache_file, semaphore>>
    /\ UNCHANGED engine_vars

InitFetch == Built(EmptyTable) /\ fuzz

NextFetch ==
    \/ \E t \in Tasks : GetSeries(t)
    \/ \E t \in Tasks : Resume(t)
    \/ \E t \in Tasks : Slept(t)
    \/ \E t \in Tasks, end \in FetchEnds : Responded(t, end)
    \/ \E t \in Tasks : Finish(t)

\* The event loop runs every task that is ready, the sleep of line 179 ends,
\* and the request ends by a response or an error (timeout, line 176).
FairFetch ==
    \A t \in Tasks :
        /\ WF_vars(Resume(t))
        /\ WF_vars(Slept(t))
        /\ WF_vars(\E end \in FetchEnds : Responded(t, end))

SpecFetch == InitFetch /\ [][NextFetch]_vars /\ FairFetch

\* ------------------------------------------------------- the server's tools

\* what the tools leave alone
tool_frame == <<search_corpus, fuzz, op, arg, ret, q_norm, q_attrs, candidates,
                score_log, scored_candidates, semaphore>>

NoNames == [given |-> FALSE, list |-> <<>>]

\* the tables load() can leave in metadata_client.df
LoadedTables == {EmptyTable, ServerCatalog}

\* the calls of search_series that a load() can precede
LoadingCalls ==
    {[NewCall("search_series", query, NoNames) EXCEPT
          !.load = did, !.loaded_before = before] :
        query \in ServerQueries, did \in {"early", "cache", "download"},
        before \in BOOLEAN}

\* search_series_after_load, evaluated once for each table, library and call
after_load ==
    [table \in LoadedTables, fz \in BOOLEAN, query \in ServerQueries |->
        [c \in {k \in LoadingCalls : k.query = query} |->
            search_series_after_load(c, table, fz)]]

\* the call record when 'await metadata_client.load()' begins
loading(c, l) ==
    [c EXCEPT !.load = l.did,
              !.loaded_before = (_loaded /\ df.rows # <<>>)]

\* search_series(query) up to its return or to the await of the download
\* (server.py lines 31-55, client.py lines 58-84)
SearchSeries(t, query) ==
    /\ pc[t] = "idle"
    /\ LET l == load_start(df, _loaded, cache_file)
           c == loading(NewCall("search_series", query, NoNames), l)
       IN  /\ df' = l.df
           /\ _loaded' = l._loaded
           /\ IF l.did = "download"
              THEN /\ pc' = [pc EXCEPT ![t] = "downloading"]
                   /\ call' = [call EXCEPT ![t] = c]
              ELSE /\ pc' = [pc EXCEPT ![t] = "done"]
                   /\ call' = [call EXCEPT
                                 ![t] = after_load[l.df, fuzz, query][c]]
    /\ UNCHANGED cache_file
    /\ UNCHANGED tool_frame

\* get_table(series_codes, names) up to 'await _get_data' (line 148)
GetTable(t, names) ==
    /\ pc[t] = "idle"
    /\ pc' = [pc EXCEPT ![t] = "fetching"]
    /\ call' = [call EXCEPT ![t] = NewCall("get_table", <<>>, names)]
    /\ UNCHANGED <<df, _loaded, cache_file>>
    /\ UNCHANGED tool_frame

\* what _get_data returns (lines 57-93): the rows as JSON, the text for an
\* empty frame, the text for an exception
DataEnds == {"rows", "no_data", "error"}

\* _get_data returned; get_table goes on to its return or to the await of the
\* download (lines 149-169)
DataFetched(t, data) ==
    /\ pc[t] = "fetching"
    /\ LET c == [call[t] EXCEPT !.data = data]
           l == load_start(df, _loaded, cache_file)
       IN  IF data = "error"
           THEN /\ call' = [call EXCEPT
                              ![t] = [c EXCEPT !.out = Text("Error fetching data")]]
                /\ pc' = [pc EXCEPT ![t] = "done"]
                /\ UNCHANGED <<df, _loaded>>
           ELSE IF data = "no_data"
           THEN /\ call' = [call EXCEPT
                              ![t] = [c EXCEPT !.out =
                                  Text("No data found for the specified parameters.")]]
                /\ pc' = [pc EXCEPT ![t] = "done"]
                /\ UNCHANGED <<df, _loaded>>
           ELSE IF c.names.given /\ c.names.list # <<>>
           THEN /\ call' = [call EXCEPT ![t] = get_table_with_names(c, TableCodes)]
                /\ pc' = [pc EXCEPT ![t] = "done"]
                /\ UNCHANGED <<df, _loaded>>
           ELSE /\ df' = l.df
                /\ _loaded' = l._loaded
                /\ IF l.did = "download"
                   THEN /\ pc' = [pc EXCEPT ![t] = "downloading"]
                        /\ call' = [call EXCEPT ![t] = loading(c, l)]
                   ELSE /\ pc' = [pc EXCEPT ![t] = "done"]
                        /\ call' = [call EXCEPT ![t] =
                               get_table_after_load(loading(c, l), TableCodes)]
    /\ UNCHANGED cache_file
    /\ UNCHANGED tool_frame

\* how the request of refresh ends (lines 84-88): the catalog, or an exception
\* (error status, transport error, unreadable content)
DownloadEnds == {"catalog", "error"}

\* the download of refresh ends (lines 84-93), load returns or raises, and the
\* tool runs to its return
Downloaded(t, end) ==
    /\ pc[t] = "downloading"
    /\ pc' = [pc EXCEPT ![t] = "done"]
    /\ IF end = "catalog"
       THEN /\ df' = ServerCatalog
            /\ cache_file' = CacheFileOf(ServerCatalog)
            /\ _loaded' = TRUE
            /\ call' = [call EXCEPT ![t] =
                   IF call[t].tool = "search_series"
                   THEN after_load[ServerCatalog, fuzz, call[t].query][call[t]]
                   ELSE get_table_after_load(call[t], TableCodes)]
       ELSE /\ UNCHANGED <<df, cache_file, _loaded>>
            /\ call' = [call EXCEPT ![t] =
                   IF call[t].tool = "search_series"
                   THEN search_series_failed(call[t], "HTTPError")
                   ELSE get_table_failed(call[t], "HTTPError")]
    /\ UNCHANGED tool_frame

\* the client of the server takes the string the tool returned
Reply(t) ==
    /\ pc[t] = "done"
    /\ pc' = [pc EXCEPT ![t] = "idle"]
    /\ call' = [call EXCEPT ![t] = NoCall]
    /\ UNCHANGED <<df, _loaded, cache_file>>
    /\ UNCHANGED tool_frame

\* the cache file the server finds when it starts
InitialCacheFiles ==
    {NoCacheFile, CorruptCacheFile, CacheFileOf(ServerCatalog),
     CacheFileOf(EmptyTable)}

InitServer ==
    /\ EngineBuilt(EmptyTable)
    /\ \E file \in InitialCacheFiles : ServerStarted(file)

NextServer ==
    \/ \E t \in Callers, query \in ServerQueries : SearchSeries(t, query)
    \/ \E t \in Callers, names \in NamesArgs : GetTable(t, names)
    \/ \E t \in Callers, data \in DataEnds : DataFetched(t, data)
    \/ \E t \in Callers, end \in DownloadEnds : Downloaded(t, end)
    \/ \E t \in Callers : Reply(t)

SpecServer == InitServer /\ [][NextServer]_vars

\* ------------------------------------------------------------- properties

IsSolve == op = "solve"

IsNotFound(r) == "error" \in DOMAIN r /\ r.error = "no_match"

IsAmbiguous(r) == "error" \in DOMAIN r /\ r.error = "ambiguedad"

IsResolved(r) == "codigo_serie" \in DOMAIN r

\* the empty string or only whitespace
IsBlank(v) == v.type = "str" /\ \A i \in DOMAIN v.s : IsSpace(v.s[i])

\* C1 as stated: solve of the empty or a whitespace-only string is not-found
\* with reason empty_query, whatever the corpus, the empty one included.
C1_BlankIsEmptyQueryAnyCorpus ==
    (IsSolve /\ IsBlank(arg)) => ret = not_found("empty_query")

\* C1 amended: solve of the empty or a whitespace-only string is not-found with
\* reason empty_query on every non-empty corpus, and not-found with reason
\* empty_corpus on the empty corpus.
C1_BlankQuery ==
    (IsSolve /\ IsBlank(arg)) =>
        ret = not_found(IF search_corpus = <<>> THEN "empty_corpus"
                        ELSE "empty_query")

C1_Witness ==
    /\ IsSolve /\ IsBlank(arg) /\ arg.s # <<>>
    /\ search_corpus # <<>>
    /\ ret = not_found("empty_query")

AskedTipoCambio == IsSolve /\ df = ExchangeTable /\ arg = Str(p_tipo_cambio)

\* C2 as stated: on the corpus of the two exchange-rate series PD1 and PD2,
\* solve('tipo cambio') is an ambiguity whose candidates hold PD1 and PD2.
C2_TipoCambioAmbiguous ==
    AskedTipoCambio =>
        /\ IsAmbiguous(ret)
        /\ {"PD1", "PD2"} \subseteq Range(ret.candidates)

\* C2 amended: on that corpus solve('tipo cambio') is not-found with reason
\* low_score (no record reaches the threshold), so never one resolved code.
C2_TipoCambioLowScore ==
    AskedTipoCambio => ret = not_found("low_score")

C2_Witness ==
    /\ AskedTipoCambio /\ fuzz
    /\ Len(score_log) = 2
    /\ \A i \in DOMAIN score_log : ~accepted(score_log[i])

\* C3: _normalize is idempotent: normalizing its own result returns that
\* result unchanged.
C3_NormalizeIdempotent ==
    op = "_normalize" => _normalize(Str(ret)) = ret

\* the positions of the tokens of a list that are not stopwords
KeptAt(tokens) == {i \in DOMAIN tokens : tokens[i] \notin STOPWORDS}

\* the k-th smallest member of a set of numbers
Kth(S, k) == CHOOSE i \in S : Cardinality({j \in S : j < i}) = k - 1

\* C4: no stopword is a token of _normalize(s), and the tokens of the result
\* are exactly the other tokens of the lowercased, accent-folded,
\* punctuation-stripped input, in their order.
C4_StopwordsStripped ==
    (op = "_normalize" /\ arg.type = "str") =>
        LET out == Split(ret)
            folded == FoldedTokens(arg.s)
            kept == KeptAt(folded)
        IN  /\ \A w \in STOPWORDS : w \notin Range(out)
            /\ Len(out) = Cardinality(kept)
            /\ \A k \in DOMAIN out : out[k] = folded[Kth(kept, k)]

C4_Witness ==
    /\ op = "_normalize" /\ arg.type = "str"
    /\ ret # <<>>
    /\ \E w \in STOPWORDS : w \in Range(FoldedTokens(arg.s))

\* the currency the claim gives a token set
ExpectedCurrency(tokens) ==
    IF tokens \cap {w_us, w_usd, w_dolares} # {} THEN "usd"
    ELSE IF tokens \cap {w_s, w_pen, w_soles} # {} THEN "pen"
    ELSE Null

\* C5: _extract_attributes gives currency usd when the tokens of the text hold
\* any of us, usd, dolares (whatever else they hold), pen when they hold none
\* of those and any of s, pen, soles, and null otherwise.
C5_Currency ==
    op = "_extract_attributes" =>
        ret.currency = ExpectedCurrency(Range(Split(arg.s)))

C5_Witness ==
    /\ op = "_extract_attributes"
    /\ w_us \in Range(Split(arg.s)) /\ w_soles \in Range(Split(arg.s))
    /\ ret.currency = "usd"

\* solve, called on the engine or through the metadata, went past its parse
\* of the query: the hard filters ran
Filtered ==
    /\ op \in {"solve", "metadata_solve"}
    /\ ~(IsNotFound(ret) /\ ret.reason \in {"empty_corpus", "empty_query",
                                            "metadata_not_loaded"})

Facets == {"currency", "horizon", "component"}

FacetValues ==
    [currency |-> {"usd", "pen"}, horizon |-> {"corto", "largo"},
     component |-> {"activos", "pasivos"}]

\* the record agrees with every non-null facet of the attributes
Matches(c, attrs) == \A f \in Facets : attrs[f] # Null => c[f] = attrs[f]

\* C6: every candidate left by the hard filters has exactly the query's value
\* for each non-null facet of the query (a record whose facet is null is
\* dropped), no record is dropped for a facet the query leaves null, and a
\* query with one more non-null facet has no candidate this one lacks.
C6_HardFilters ==
    Filtered =>
        /\ \A f \in Facets : q_attrs[f] # Null =>
               \A i \in DOMAIN candidates : candidates[i][f] = q_attrs[f]
        /\ Range(candidates) = {c \in Range(search_corpus) : Matches(c, q_attrs)}
        /\ \A f \in Facets : q_attrs[f] = Null =>
               \A v \in FacetValues[f] :
                   Range(hard_filters(search_corpus, [q_attrs EXCEPT ![f] = v]))
                       \subseteq Range(candidates)

C6_Witness ==
    /\ Filtered
    /\ q_attrs.horizon # Null /\ q_attrs.currency = Null
    /\ candidates # <<>>
    /\ \E c \in Range(search_corpus) : c.horizon = Null
    /\ \E v \in {"usd", "pen"} :
           Range(hard_filters(search_corpus, [q_attrs EXCEPT !.currency = v]))
               # Range(candidates)

\* C7: solve decides in a fixed order: an empty corpus gives empty_corpus; else
\* a query without tokens gives empty_query; else no record matching the
\* query's facets gives filters_eliminated_all, with no record scored; else no
\* accepted candidate gives low_score; else the result is not a not-found.
C7_OutcomeOrder ==
    IsSolve =>
        \A text_norm \in {_normalize(arg)} :
        \A attrs \in {_extract_attributes(text_norm)} :
            IF search_corpus = <<>> THEN ret = not_found("empty_corpus")
            ELSE IF Split(text_norm) = <<>> THEN ret = not_found("empty_query")
            ELSE IF \A c \in Range(search_corpus) : ~Matches(c, attrs)
            THEN /\ ret = not_found("filters_eliminated_all")
                 /\ score_log = <<>>
                 /\ scored_candidates = <<>>
            ELSE /\ Len(score_log) = Len(candidates)
                 /\ IF \A i \in DOMAIN score_log : ~accepted(score_log[i])
                    THEN ret = not_found("low_score")
                    ELSE ~IsNotFound(ret)

C7_Witness ==
    /\ IsSolve /\ fuzz
    /\ ret = not_found("filters_eliminated_all")
    /\ search_corpus # <<>>
    /\ score_log = <<>>

\* the codes a result of solve names
CodesOf(r) ==
    IF IsResolved(r) THEN {r.codigo_serie}
    ELSE IF IsAmbiguous(r) THEN Range(r.candidates)
    ELSE {}

\* C8: a candidate is accepted exactly when its base score minus 5 for each
\* query token absent from its tokens is at least 80, and only accepted
\* candidates are named by a resolved result or an ambiguity.
C8_Acceptance ==
    Filtered =>
        LET q_tokens == Range(Split(q_norm))
            Adjusted(x) ==
                RatMinus(x.original_score,
                         5 * Cardinality({t \in q_tokens : t \notin x.series.tokens}))
            Passing == {x \in Range(score_log) : RatGE(Adjusted(x), Rat(80, 1))}
        IN  /\ {x.series : x \in Range(score_log)} = Range(candidates)
            /\ \A x \in Range(score_log) :
                   x.score.num * Adjusted(x).den = Adjusted(x).num * x.score.den
            /\ Range(scored_candidates) = Passing
            /\ CodesOf(ret) \subseteq {x.series.codigo_serie : x \in Passing}

C8_Witness ==
    /\ Filtered
    /\ scored_candidates # <<>>
    /\ \E x \in Range(score_log) :
           /\ RatGE(x.original_score, Rat(80, 1))
           /\ ~RatGE(x.score, Rat(80, 1))

\* a candidate accepted with a score of exactly 80
C8_AtThreshold ==
    /\ Filtered
    /\ \E x \in Range(scored_candidates) : x.score.num = 80 * x.score.den

\* a candidate accepted although a query token is absent from it
C8_AcceptedWithPenalty ==
    /\ Filtered
    /\ \E x \in Range(scored_candidates) : x.missing_query_tokens # {}

\* the accepted candidates no other accepted candidate outscores
Best(S) == {x \in S : \A y \in S : RatGE(x.score, y.score)}

\* the accepted candidates within 5 points of the top score
Tier(S) == {x \in S : \E b \in Best(S) : RatGE(x.score, RatMinus(b.score, 5))}

Mixed(T) ==
    \/ Cardinality({x.series.currency : x \in T}) > 1
    \/ Cardinality({x.series.component : x \in T}) > 1

C9_TieResolved ==
    /\ Filtered /\ IsResolved(ret)
    /\ Cardinality(Best(Range(scored_candidates))) > 1

\* C10: the confidence of a resolved result, in hundredths, is the hundredth
\* nearest to the adjusted score of the top candidate, and lies between 80 and
\* 100 (0.80 and 1.00).
C10_Confidence ==
    (Filtered /\ IsResolved(ret)) =>
        /\ ret.confidence \in 80..100
        /\ \E x \in Best(Range(scored_candidates)) :
               LET d == ret.confidence * x.score.den - x.score.num
               IN  2 * d <= x.score.den /\ -2 * d <= x.score.den

C10_Witness ==
    /\ Filtered /\ IsResolved(ret)
    /\ ret.confidence < 100
    /\ \E x \in Best(Range(scored_candidates)) :
           x.score.num % x.score.den # 0

\* C11: without the similarity library the base score of every candidate is
\* the share of the query's tokens the candidate holds, scaled to 0..100, and a
\* query whose tokens are all held by exactly one record resolves to that
\* record.
C11_FallbackOverlap ==
    (IsSolve /\ ~fuzz) =>
        LET q_tokens == Range(Split(q_norm))
            Holding == {c \in Range(search_corpus) : q_tokens \subseteq c.tokens}
        IN  /\ \A x \in Range(score_log) :
                   x.original_score.num * Cardinality(q_tokens) =
                       100 * Cardinality(q_tokens \cap x.series.tokens)
                           * x.original_score.den
            /\ (q_tokens # {} /\ Cardinality(Holding) = 1) =>
                   /\ IsResolved(ret)
                   /\ \E c \in Holding : ret.codigo_serie = c.codigo_serie

NotFoundReasons ==
    {"empty_corpus", "empty_query", "filters_eliminated_all", "low_score"}

\* C12: whatever the corpus and the query (None included), solve returns
\* exactly one of: a resolved result with the fields codigo_serie, confidence
\* and name and no error; an ambiguity (error ambiguedad) with a list of
\* candidates; a not-found (error no_match) whose reason is empty_corpus,
\* empty_query, filters_eliminated_all or low_score.
C12_TaggedResult ==
    IsSolve =>
        \/ DOMAIN ret = {"codigo_serie", "confidence", "name"}
        \/ /\ DOMAIN ret = {"error", "candidates", "reason"}
           /\ ret.error = "ambiguedad"
           /\ Len(ret.candidates) \in 1..5
        \/ /\ DOMAIN ret = {"error", "reason"}
           /\ ret.error = "no_match"
           /\ ret.reason \in NotFoundReasons

C12_Witness ==
    /\ IsSolve /\ arg = None
    /\ search_corpus # <<>>
    /\ ret = not_found("empty_query")

\* the series codes of the rows of a table
RowCodes(table) == {table.rows[i].code : i \in DOMAIN table.rows}

\* C13: on a table whose series-code column is headed with the accented or the
\* unaccented spelling, every record of the corpus carries the code of its
\* row, and every code a resolved result or an ambiguity names is the
\* (non-null) code of a row of the table.
C13_SeriesCode ==
    (IsSolve /\ CodesOf(ret) # {}
        /\ df.header \in {"Codigo_accented", "Codigo_unaccented"}) =>
        /\ \A i \in DOMAIN search_corpus :
               search_corpus[i].codigo_serie = df.rows[i].code
        /\ "None" \notin CodesOf(ret)
        /\ CodesOf(ret) \subseteq RowCodes(df)

IsFormatDate == op = "_format_date_for_api"

IsDigit(c) == c \in Range(Digits)

\* 'YYYY-MM'
IsYearMonth(t) ==
    /\ Len(t) = 7 /\ t[5] = "-"
    /\ \A i \in {1, 2, 3, 4, 6, 7} : IsDigit(t[i])

\* 'YYYY-MM-DD'
IsYearMonthDay(t) ==
    /\ Len(t) = 10 /\ t[5] = "-" /\ t[8] = "-"
    /\ \A i \in {1, 2, 3, 4, 6, 7, 9, 10} : IsDigit(t[i])

\* two digits without the leading zero
Unpadded(dd) == IF dd[1] = "0" THEN <<dd[2]>> ELSE dd

\* C16: _format_date_for_api returns None and the empty string unchanged; for
\* a frequency other than daily it maps 'YYYY-MM' and 'YYYY-MM-DD' to 'YYYY-M';
\* for the daily frequency it maps 'YYYY-MM' to 'YYYY-M-1' and 'YYYY-MM-DD' to
\* 'YYYY-M-D' (leading zeros removed); a date without '-' is returned unchanged.
C16_FormatDate ==
    IsFormatDate =>
        LET t == arg.s
            date_str == [type |-> arg.type, s |-> arg.s]
            year == SubSeq(t, 1, 4)
            month == Unpadded(SubSeq(t, 6, 7))
            day == Unpadded(SubSeq(t, 9, 10))
        IN  /\ (arg.type # "str" \/ t = <<>>) => ret = date_str
            /\ (arg.type = "str" /\ "-" \notin Range(t)) => ret = date_str
            /\ (arg.type = "str" /\ IsYearMonth(t)) =>
                   ret = IF arg.frequency = "daily"
                         THEN Str(year \o <<"-">> \o month \o <<"-", "1">>)
                         ELSE Str(year \o <<"-">> \o month)
            /\ (arg.type = "str" /\ IsYearMonthDay(t)) =>
                   ret = IF arg.frequency = "daily"
                         THEN Str(year \o <<"-">> \o month \o <<"-">> \o day)
                         ELSE Str(year \o <<"-">> \o month)

C16_Witness ==
    /\ IsFormatDate /\ arg.frequency = "daily"
    /\ IsYearMonthDay(arg.s)
    /\ arg.s[6] = "0" /\ arg.s[9] = "0"
    /\ Len(ret.s) = 8

\* a monthly date with its day is cut to year and month
C16_MonthlyDropsDay ==
    /\ IsFormatDate /\ arg.frequency = "monthly"
    /\ IsYearMonthDay(arg.s)
    /\ Len(ret.s) = 7

\* a part that is no integer raises ValueError
C16_Raises == IsFormatDate /\ ret = ValueError

\* C14: at most one task is inside the fetch section at any moment, a task
\* enters it only when no other task is inside, and every task waiting for
\* the semaphore eventually enters.
C14_OneInFlight ==
    /\ [](Cardinality(InFetch) <= 1)
    /\ [][\A t \in Tasks :
            (pc[t] \notin {"sleep", "get"} /\ pc'[t] = "sleep") => InFetch = {}]_vars
    /\ \A t \in Tasks : (pc[t] = "waiting") ~> (pc[t] = "sleep")

\* a request is in flight while two other calls wait for the semaphore
C14_Witness ==
    /\ \E t \in Tasks : pc[t] = "get"
    /\ Cardinality({t \in Tasks : pc[t] = "waiting"}) >= 2
    /\ Len(semaphore.waiters) >= 2

Returning(t, tool) == pc[t] = "done" /\ call[t].tool = tool

\* the string is the plain text msg
IsText(out, msg) == out.kind = "text" /\ out.value = msg

\* C17: search_series always returns a string: "Search failed" when the load
\* or the search raised; else the result of solve as JSON when it is a resolved
\* series or an ambiguity; else (a not-found) the listing as JSON, or the text
\* "No series found matching that query." when the listing is empty.  The
\* listing is consulted only after solve returned a not-found.
C17_SearchSeries ==
    \A t \in Callers : Returning(t, "search_series") =>
        LET c == call[t]
        IN  /\ c.out.kind \in {"json", "text"}
            /\ c.searched => IsNotFound(c.result)
            /\ IF c.raised # "none"
               THEN IsText(c.out, "Search failed")
               ELSE IF IsResolved(c.result) \/ IsAmbiguous(c.result)
               THEN /\ c.out.of = "result" /\ c.out.kind = "json"
                    /\ c.out.value = c.result
                    /\ ~c.searched
               ELSE /\ IsNotFound(c.result)
                    /\ c.searched
                    /\ IF c.listing = <<>>
                       THEN IsText(c.out, "No series found matching that query.")
                       ELSE /\ c.out.of = "listing" /\ c.out.kind = "json"
                            /\ c.out.value = c.listing

\* solve answered an ambiguity, which the tool returns without a listing
C17_Witness ==
    \E t \in Callers :
        /\ Returning(t, "search_series")
        /\ IsAmbiguous(call[t].result)
        /\ call[t].out.of = "result"

\* a not-found whose listing holds rows
C17_Listing ==
    \E t \in Callers :
        /\ Returning(t, "search_series") /\ fuzz
        /\ call[t].out.of = "listing"

\* a not-found whose listing is empty, on a loaded catalog
C17_NoSeries ==
    \E t \in Callers :
        /\ Returning(t, "search_series") /\ df.rows # <<>>
        /\ IsText(call[t].out, "No series found matching that query.")

\* the download failed
C17_Failed ==
    \E t \in Callers :
        /\ Returning(t, "search_series")
        /\ IsText(call[t].out, "Search failed")

\* the tool resolved a series
C17_Resolved ==
    \E t \in Callers :
        /\ Returning(t, "search_series")
        /\ IsResolved(call[t].result)

\* C18: get_table called without names, after a data fetch that returned
\* rows, returns the table as JSON, every series column renamed; it never
\* returns "Table generation failed".
C18_TableWithoutNames ==
    \A t \in Callers :
        (Returning(t, "get_table") /\ ~call[t].names.given
            /\ call[t].data = "rows") =>
            /\ call[t].out.kind = "json"
            /\ ~IsText(call[t].out, "Table generation failed")

\* C20: at most one download of the catalog is under way at any moment, and a
\* load() begun once the table is loaded and not empty returns at once,
\* without reading the cache file or downloading.
C20_SingleDownload ==
    /\ Cardinality({t \in Callers : pc[t] = "downloading"}) <= 1
    /\ \A t \in Callers :
           (call[t].tool # "none" /\ call[t].loaded_before) =>
               call[t].load = "early"

====
